---- MODULE Spec2Model ----
(***************************************************************************)
(* Model of koishi-plugin-xiaohongshu-parser-node:                         *)
(*   - XHSClient result cache (src/src/client.ts): LRU map with TTL,       *)
(*     lazy expiry on read, periodic sweep, clearCache, dispose;           *)
(*   - getContent as an asynchronous operation suspended at its fetch.     *)
(***************************************************************************)
EXTENDS Integers, Sequences, FiniteSets, TLC

(***************************************************************************)
(* Bounds of the model.                                                    *)
(***************************************************************************)
\* capacity of the cache; the source sets 200 (client.ts:16), scaled down here
MAX_CACHE_SIZE == 2
\* config.cacheTimeout, in clock ticks (client.ts:74); above 1 so that an entry
\* can be hit at a positive age
CacheTimeout == 2
\* the clock Date.now() runs from 0 to MaxTime: ages below, at and above the timeout
MaxTime == CacheTimeout + 1
\* number of getContent calls that may be suspended at their fetch at once
MaxCalls == 1
\* number of getContent calls that overlap when overlapping calls are studied
MaxOverlap == 2

(***************************************************************************)
(* URLs.  A URL string scheme://host/seg1/seg2/... is the record of its    *)
(* scheme, its host and the sequence of its '/'-separated segments; len is *)
(* the length of the string.  The words below are the alphabet of the      *)
(* model; the string tests the source makes on them are tabulated.         *)
(***************************************************************************)
Url(scheme, host, path, len) == [scheme |-> scheme, host |-> host, path |-> path, len |-> len]

\* `https://www.xiaohongshu.com/explore/${id}` (utils.ts:43)
ExploreUrl(id) == Url("https", "www.xiaohongshu.com", <<"explore", id>>, 40)

\* word w ends with the text d (an unanchored regex /d\// matches at w)
EndsWithText(w, d) ==
  \/ w = d
  \/ <<w, d>> \in { <<"www.xiaohongshu.com", "xiaohongshu.com">>,
                    <<"?u=xiaohongshu.com", "xiaohongshu.com">>,
                    <<"notxhslink.com", "xhslink.com">>,
                    <<"m.xhslink.com", "xhslink.com">> }

\* host === d || host.endsWith('.' + d)
IsDomainOrSubdomain(host, d) ==
  \/ host = d
  \/ <<host, d>> \in { <<"www.xiaohongshu.com", "xiaohongshu.com">>,
                       <<"m.xhslink.com", "xhslink.com">> }

\* the longest prefix of w matched by [a-zA-Z0-9]+, "" when w starts otherwise
AlnumPrefix(w) ==
  CASE w \in {"a1", "a2", "a3", "s1", "u1", "explore", "discovery", "item", "user",
              "profile", "about", "search_result"} -> w
    [] w = "a1'x" -> "a1"
    [] OTHER -> ""

\* /[<>"'\\]/.test(w)
HasDangerousChar(w) == w \in {"a1'x"}

\* record versions a fetch can return
Contents == {"v1", "v2"}

CallIds == 1..MaxCalls

\* normalized URLs getContent is called with when the cache is studied alone
CacheKeys == {ExploreUrl("a1"), ExploreUrl("a2"), ExploreUrl("a3")}

\* the absent URL and the absent record
NoUrl == Url("", "", <<>>, 0)
NoData == ""

VARIABLES
  enableCache,       \* config.enableCache
  cache,             \* XHSClient.cache: key -> [data, timestamp]
  cacheAccessOrder,  \* XHSClient.cacheAccessOrder: keys, least recent first
  cleanupTimer,      \* XHSClient.cleanupTimer is set
  now,               \* Date.now()
  calls,             \* getContent calls: idle or suspended at the fetch
  ret,               \* outcome of the last getContent step
  lastUse,           \* history: the cached keys, least recently accessed first
  allowedDomains,    \* config.allowedDomains
  urls,              \* parseLinksWithLimit: the urls argument
  bpc,               \* parseLinksWithLimit: "idle", "running", "finished" or "rejected"
  bi,                \* parseLinksWithLimit: the loop variable i
  tasks,             \* parseLinksWithLimit: the task of each element of urls
  results,           \* parseLinksWithLimit: the set results
  client,            \* one resolve: "xhs" (XHSClient) or "basic" (BasicXHSClient)
  maxRetries,        \* one resolve: config.maxRetries
  attempt,           \* one resolve: the loop variable attempt
  fpc,               \* one resolve: "idle", "requesting", "sleeping", "returned", "thrown"
  requests,          \* history: number of axios.get calls of the resolve
  slept,             \* history: the delays of the setTimeout calls, in order
  followed,          \* history: hosts of the redirect hops the HTTP client followed
  lastError,         \* message of the last exception caught
  reply,             \* what the caller or chat user receives from the resolve
  pin,               \* argument of the pure function under study
  pout,              \* its result
  queue,             \* graph search: the local queue
  visited,           \* graph search: the local set visited
  examined,          \* history: the objects the search has looked at, in order
  acc                \* collectNoteCandidates: the local list result

cacheVars == <<enableCache, cache, cacheAccessOrder, cleanupTimer, now, calls, ret, lastUse>>
batchVars == <<allowedDomains, urls, bpc, bi, tasks, results>>
fetchVars == <<client, maxRetries, attempt, fpc, requests, slept, followed, lastError, reply>>
walkVars == <<queue, visited, examined, acc>>
pureVars == <<pin, pout, walkVars>>
vars == <<cacheVars, batchVars, fetchVars, pureVars>>

NoReply == [kind |-> "none", text |-> ""]

\* no resolve of the retry study is under way
FetchIdle ==
  /\ client = "xhs"
  /\ maxRetries = 1
  /\ attempt = 0
  /\ fpc = "idle"
  /\ requests = 0
  /\ slept = <<>>
  /\ followed = {}
  /\ lastError = ""
  /\ reply = NoReply

\* no graph search is under way
WalkIdle == queue = <<>> /\ visited = {} /\ examined = <<>> /\ acc = <<>>

\* no pure function is under study
PureIdle == pin = "none" /\ pout = "none" /\ WalkIdle

(***************************************************************************)
(* Helpers on sequences and maps.                                          *)
(***************************************************************************)
Range(s) == {s[i] : i \in 1..Len(s)}

\* Array.prototype.indexOf: first index of x in s, 0 when absent
IndexOf(s, x) ==
  IF x \in Range(s) THEN CHOOSE i \in 1..Len(s) : s[i] = x /\ \A j \in 1..(i-1) : s[j] # x
  ELSE 0

\* Array.prototype.splice(index, 1)
Splice1(s, i) == [j \in 1..(Len(s)-1) |-> IF j < i THEN s[j] ELSE s[j+1]]

\* Map.prototype.delete
MapDelete(m, k) == [x \in (DOMAIN m) \ {k} |-> m[x]]

\* Map.prototype.set
MapSet(m, k, v) == [x \in (DOMAIN m) \cup {k} |-> IF x = k THEN v ELSE m[x]]

EmptyMap == [x \in {} |-> 0]

(***************************************************************************)
(* URL validation and normalization (utils.ts).                            *)
(***************************************************************************)
MAX_URL_LENGTH == 2048

DEFAULT_ALLOWED_DOMAINS == {"xiaohongshu.com", "www.xiaohongshu.com", "xhslink.com"}

\* getAllowedDomains(config)
getAllowedDomains(configured) ==
  IF configured # {} THEN configured ELSE DEFAULT_ALLOWED_DOMAINS

\* isPrivateIP(hostname): the address prefixes of privateRanges
isPrivateIP(hostname) == hostname \in {"127.0.0.1", "10.0.0.8", "192.168.1.1"}

\* isLocalhost(hostname)
isLocalhost(hostname) == hostname \in {"localhost", "0.0.0.0", "::1"}

\* validateUrl(url, allowedDomains); new URL(url) throws on a string without scheme
validateUrl(url, allowed) ==
  IF url.scheme = "" THEN FALSE
  ELSE IF url.scheme \notin {"http", "https"} THEN FALSE
  ELSE IF isPrivateIP(url.host) \/ isLocalhost(url.host) THEN FALSE
  ELSE \E d \in allowed : d # "" /\ IsDomainOrSubdomain(url.host, d)

\* the words of the URL string between the '/' separators, host first
UrlWords(url) == <<url.host>> \o url.path

\* positions where the unanchored regex  domain\/seg1\/...\/([a-zA-Z0-9]+)  matches
RegexMatches(url, domain, segs) ==
  LET w == UrlWords(url)
  IN {i \in 1..Len(w) :
        /\ EndsWithText(w[i], domain)
        /\ i + Len(segs) + 1 <= Len(w)
        /\ \A j \in 1..Len(segs) : w[i + j] = segs[j]
        /\ AlnumPrefix(w[i + Len(segs) + 1]) # ""}

\* the capture group of the leftmost match
RegexCapture(url, domain, segs) ==
  LET w == UrlWords(url)
      m == RegexMatches(url, domain, segs)
      i == CHOOSE x \in m : \A y \in m : x <= y
  IN AlnumPrefix(w[i + Len(segs) + 1])

NoParse == [ok |-> FALSE, normalized |-> NoUrl, type |-> "", id |-> ""]

\* parseXHSUrl(url)
parseXHSUrl(url) ==
  IF url.len > MAX_URL_LENGTH THEN NoParse
  ELSE IF \E i \in 1..Len(UrlWords(url)) : HasDangerousChar(UrlWords(url)[i]) THEN NoParse
  ELSE IF RegexMatches(url, "xhslink.com", <<>>) # {}
    THEN [ok |-> TRUE, normalized |-> url, type |-> "note",
          id |-> RegexCapture(url, "xhslink.com", <<>>)]
  ELSE IF RegexMatches(url, "xiaohongshu.com", <<"explore">>) # {}
    THEN [ok |-> TRUE, type |-> "note",
          normalized |-> ExploreUrl(RegexCapture(url, "xiaohongshu.com", <<"explore">>)),
          id |-> RegexCapture(url, "xiaohongshu.com", <<"explore">>)]
  ELSE IF RegexMatches(url, "xiaohongshu.com", <<"discovery", "item">>) # {}
    THEN [ok |-> TRUE, type |-> "note",
          normalized |-> ExploreUrl(RegexCapture(url, "xiaohongshu.com", <<"discovery", "item">>)),
          id |-> RegexCapture(url, "xiaohongshu.com", <<"discovery", "item">>)]
  ELSE IF RegexMatches(url, "xiaohongshu.com", <<"search_result">>) # {}
    THEN [ok |-> TRUE, type |-> "note",
          normalized |-> ExploreUrl(RegexCapture(url, "xiaohongshu.com", <<"search_result">>)),
          id |-> RegexCapture(url, "xiaohongshu.com", <<"search_result">>)]
  ELSE IF RegexMatches(url, "xiaohongshu.com", <<"user", "profile">>) # {}
    THEN [ok |-> TRUE, normalized |-> url, type |-> "user",
          id |-> RegexCapture(url, "xiaohongshu.com", <<"user", "profile">>)]
  ELSE NoParse


(***************************************************************************)
(* XHSClient cache operations (pure parts).                                *)
(***************************************************************************)
\* removeFromAccessOrder(url)
removeFromAccessOrder(order, url) ==
  LET index == IndexOf(order, url)
  IN IF index > 0 THEN Splice1(order, index) ELSE order

\* updateAccessOrder without the removal of the earlier occurrence
updateAccessOrder_PushOnly(order, url) == Append(order, url)

\* updateAccessOrder(url)
updateAccessOrder(order, url) == Append(removeFromAccessOrder(order, url), url)

\* isExpired with the entry's timestamp forgotten
isExpired_NoTimestamp(entry, t) == t >= CacheTimeout

\* isExpired with the strict comparison the sweep uses
isExpired_Strict(entry, t) == t - entry.timestamp > CacheTimeout

\* isExpired as computed in getCachedContent
isExpired(entry, t) == t - entry.timestamp >= CacheTimeout

\* getCachedContent(url): the result [hit, data] and the cache state after it
getCachedContent(c, order, url, t) ==
  IF url \notin DOMAIN c
    THEN [hit |-> FALSE, lookup |-> "absent", data |-> NoData, cache |-> c, order |-> order]
  ELSE IF isExpired(c[url], t)
    THEN [hit |-> FALSE, lookup |-> "expired", data |-> NoData,
          cache |-> MapDelete(c, url), order |-> removeFromAccessOrder(order, url)]
  ELSE [hit |-> TRUE, lookup |-> "hit", data |-> c[url].data,
        cache |-> c, order |-> updateAccessOrder(order, url)]

\* setCachedContent that evicts whenever the cache is full, the key cached or not
setCachedContent_EvictWhenFull(c, order, url, content, t) ==
  LET evict == Cardinality(DOMAIN c) >= MAX_CACHE_SIZE /\ Len(order) > 0
      c1 == IF evict THEN MapDelete(c, order[1]) ELSE c
      o1 == IF evict THEN Tail(order) ELSE order
  IN [cache |-> MapSet(c1, url, [data |-> content, timestamp |-> t]),
      order |-> updateAccessOrder(o1, url)]

\* setCachedContent(url, content): the cache state after it
setCachedContent(c, order, url, content, t) ==
  LET full == Cardinality(DOMAIN c) >= MAX_CACHE_SIZE /\ url \notin DOMAIN c
      evict == full /\ Len(order) > 0
      c1 == IF evict THEN MapDelete(c, order[1]) ELSE c
      o1 == IF evict THEN Tail(order) ELSE order
  IN [cache |-> MapSet(c1, url, [data |-> content, timestamp |-> t]),
      order |-> updateAccessOrder(o1, url)]

\* the body of the setInterval callback of startCacheCleanup
sweepExpired(entry, t) == t - entry.timestamp > CacheTimeout

(***************************************************************************)
(* Initial state: a freshly constructed client.                            *)
(***************************************************************************)
IdleCall == [state |-> "idle", url |-> NoUrl]
NoRet == [op |-> "none", data |-> NoData]

InitCache ==
  /\ enableCache \in BOOLEAN
  /\ cache = EmptyMap
  /\ cacheAccessOrder = <<>>
  /\ cleanupTimer = enableCache
  /\ now = 0
  /\ calls = [c \in CallIds |-> IdleCall]
  /\ ret = NoRet
  /\ lastUse = <<>>
  /\ allowedDomains = DEFAULT_ALLOWED_DOMAINS
  /\ urls = <<>>
  /\ bpc = "idle"
  /\ bi = 0
  /\ tasks = <<>>
  /\ results = {}
  /\ FetchIdle
  /\ PureIdle

\* history of accesses: key k was hit or inserted, then only cached keys are kept
Touched(k) ==
  lastUse' = SelectSeq(Append(SelectSeq(lastUse, LAMBDA x : x # k), k),
                       LAMBDA x : x \in DOMAIN cache')

\* history of accesses: no key was accessed, only cached keys are kept
Untouched == lastUse' = SelectSeq(lastUse, LAMBDA x : x \in DOMAIN cache')

(***************************************************************************)
(* getContent(url, forceRefresh), up to its first suspension.              *)
(***************************************************************************)
GetContentStart(id, url, forceRefresh) ==
  /\ calls[id].state = "idle"
  /\ UNCHANGED <<batchVars, fetchVars, pureVars>>
  /\ UNCHANGED <<enableCache, cleanupTimer, now>>
  /\ IF ~forceRefresh /\ enableCache
       THEN LET r == getCachedContent(cache, cacheAccessOrder, url, now)
            IN /\ cache' = r.cache
               /\ cacheAccessOrder' = r.order
               /\ IF r.hit
                    THEN /\ calls' = calls
                         /\ ret' = [op |-> "hit", data |-> r.data]
                         /\ Touched(url)
                    ELSE /\ calls' = [calls EXCEPT ![id] = [state |-> "fetching", url |-> url]]
                         /\ ret' = [op |-> r.lookup, data |-> NoData]
                         /\ Untouched
       ELSE /\ UNCHANGED <<cache, cacheAccessOrder, lastUse>>
            /\ calls' = [calls EXCEPT ![id] = [state |-> "fetching", url |-> url]]
            /\ ret' = [op |-> "skipped", data |-> NoData]

\* the fetch of a suspended call resolves with a parsed record
FetchSucceeds(id, content) ==
  /\ calls[id].state = "fetching"
  /\ UNCHANGED <<batchVars, fetchVars, pureVars>>
  /\ UNCHANGED <<enableCache, cleanupTimer, now>>
  /\ calls' = [calls EXCEPT ![id] = IdleCall]
  /\ ret' = [op |-> "content", data |-> content]
  /\ IF enableCache
       THEN LET s == setCachedContent(cache, cacheAccessOrder, calls[id].url, content, now)
            IN cache' = s.cache /\ cacheAccessOrder' = s.order /\ Touched(calls[id].url)
       ELSE UNCHANGED <<cache, cacheAccessOrder, lastUse>>

\* the fetch of a suspended call fails for good: getContent throws
FetchFails(id) ==
  /\ calls[id].state = "fetching"
  /\ UNCHANGED <<batchVars, fetchVars, pureVars>>
  /\ UNCHANGED <<enableCache, cleanupTimer, now, cache, cacheAccessOrder, lastUse>>
  /\ calls' = [calls EXCEPT ![id] = IdleCall]
  /\ ret' = [op |-> "error", data |-> NoData]

\* the test before setCachedContent, with the content not looked at
shouldCache_Any(content) == enableCache

\* if (content && this.config.enableCache)
shouldCache(content) == content # NoData /\ enableCache

\* the fetch of a suspended call resolves with null (the retry loop of
\* getContentWithAxios is not entered): getContent returns null
FetchYieldsNothing(id) ==
  /\ calls[id].state = "fetching"
  /\ UNCHANGED <<batchVars, fetchVars, pureVars>>
  /\ UNCHANGED <<enableCache, cleanupTimer, now>>
  /\ calls' = [calls EXCEPT ![id] = IdleCall]
  /\ ret' = [op |-> "null", data |-> NoData]
  /\ IF shouldCache(NoData)
       THEN LET s == setCachedContent(cache, cacheAccessOrder, calls[id].url, NoData, now)
            IN cache' = s.cache /\ cacheAccessOrder' = s.order /\ Touched(calls[id].url)
       ELSE UNCHANGED <<cache, cacheAccessOrder, lastUse>>

(***************************************************************************)
(* clearCache, the periodic sweep, dispose, and the clock.                 *)
(***************************************************************************)
ClearCache ==
  /\ cache' = EmptyMap
  /\ UNCHANGED <<batchVars, fetchVars, pureVars>>
  /\ Untouched
  /\ UNCHANGED <<enableCache, cacheAccessOrder, cleanupTimer, now, calls, ret>>

Sweep ==
  /\ cleanupTimer
  /\ UNCHANGED <<batchVars, fetchVars, pureVars>>
  /\ LET dead == {k \in DOMAIN cache : sweepExpired(cache[k], now)}
     IN /\ cache' = [k \in (DOMAIN cache) \ dead |-> cache[k]]
        /\ cacheAccessOrder' = SelectSeq(cacheAccessOrder, LAMBDA k : k \notin dead)
  /\ Untouched
  /\ UNCHANGED <<enableCache, cleanupTimer, now, calls, ret>>

\* dispose that sets the timer field when it finds it clear
Dispose_Toggles ==
  /\ cleanupTimer' = ~cleanupTimer
  /\ UNCHANGED <<batchVars, fetchVars, pureVars>>
  /\ UNCHANGED <<enableCache, cache, cacheAccessOrder, now, calls, ret, lastUse>>

Dispose ==
  /\ cleanupTimer' = FALSE
  /\ UNCHANGED <<batchVars, fetchVars, pureVars>>
  /\ UNCHANGED <<enableCache, cache, cacheAccessOrder, now, calls, ret, lastUse>>

Tick ==
  /\ now < MaxTime
  /\ UNCHANGED <<batchVars, fetchVars, pureVars>>
  /\ now' = now + 1
  /\ UNCHANGED <<enableCache, cache, cacheAccessOrder, cleanupTimer, calls, ret, lastUse>>

NextCache ==
  \/ \E id \in CallIds, url \in CacheKeys, f \in BOOLEAN : GetContentStart(id, url, f)
  \/ \E id \in CallIds, content \in Contents : FetchSucceeds(id, content)
  \/ \E id \in CallIds : FetchFails(id)
  \/ ClearCache
  \/ Sweep
  \/ Tick

SpecCache == InitCache /\ [][NextCache]_vars

(***************************************************************************)
(* Overlapping getContent calls: several calls suspended at their fetches  *)
(* at once, for the same URL or for another one, settling in any order.    *)
(***************************************************************************)
OverlapKeys == {ExploreUrl("a1"), ExploreUrl("a2")}

InitOverlap ==
  /\ enableCache \in BOOLEAN
  /\ cache = EmptyMap
  /\ cacheAccessOrder = <<>>
  /\ cleanupTimer = enableCache
  /\ now = 0
  /\ calls = [c \in 1..MaxOverlap |-> IdleCall]
  /\ ret = NoRet
  /\ lastUse = <<>>
  /\ allowedDomains = DEFAULT_ALLOWED_DOMAINS
  /\ urls = <<>>
  /\ bpc = "idle"
  /\ bi = 0
  /\ tasks = <<>>
  /\ results = {}
  /\ FetchIdle
  /\ PureIdle

NextOverlap ==
  \/ \E id \in 1..MaxOverlap, url \in OverlapKeys, f \in BOOLEAN : GetContentStart(id, url, f)
  \/ \E id \in 1..MaxOverlap, content \in Contents : FetchSucceeds(id, content)
  \/ \E id \in 1..MaxOverlap : FetchFails(id)
  \/ \E id \in 1..MaxOverlap : FetchYieldsNothing(id)
  \/ Tick

SpecOverlap == InitOverlap /\ [][NextOverlap]_vars

(***************************************************************************)
(* The life of the sweep timer: a client that resolves two URLs, is swept, *)
(* and is disposed of any number of times.                                 *)
(***************************************************************************)
NextTimer ==
  \/ \E id \in CallIds, url \in OverlapKeys, f \in BOOLEAN : GetContentStart(id, url, f)
  \/ \E id \in CallIds : FetchSucceeds(id, "v1")
  \/ \E id \in CallIds : FetchFails(id)
  \/ Sweep
  \/ Dispose
  \/ Tick

SpecTimer == InitCache /\ [][NextTimer]_vars

(***************************************************************************)
(* The message middleware and parseLinksWithLimit (unnamed/part_002).      *)
(***************************************************************************)
MAX_CONCURRENT_PARSES == 3

\* bound: number of link matches in one message
MaxMatches == 4

\* XHS_LINK_REGEX: http(s) links on xiaohongshu.com, www.xiaohongshu.com or
\* xhslink.com with a non-empty tail
MatchesLinkRegex(url) ==
  /\ url.scheme \in {"http", "https"}
  /\ url.host \in {"xiaohongshu.com", "www.xiaohongshu.com", "xhslink.com"}
  /\ Len(url.path) >= 1

\* the links a message may contain
MessageLinks ==
  { ExploreUrl("a1"),
    Url("http", "xiaohongshu.com", <<"discovery", "item", "a1">>, 45),
    Url("https", "xhslink.com", <<"s1">>, 22),
    Url("https", "www.xiaohongshu.com", <<"about">>, 33) }

\* the loop of extractLinks over the matches: the first occurrence of each link.
\* (The test url.length > MAX_LINK_LENGTH never holds: a match of XHS_LINK_REGEX
\* has at most 428 characters.)
RECURSIVE extractLinksFrom(_, _)
extractLinksFrom(matches, result) ==
  IF matches = <<>> THEN result
  ELSE IF Head(matches) \in Range(result)
    THEN extractLinksFrom(Tail(matches), result)
  ELSE extractLinksFrom(Tail(matches), Append(result, Head(matches)))

\* extractLinks(text), on the regex matches of the text
extractLinks(matches) == extractLinksFrom(matches, <<>>)

WaitingTask == [state |-> "waiting", got |-> FALSE, ok |-> FALSE, sent |-> FALSE, out |-> "none"]

\* variant: the slice is one link longer
BatchOf_Wide(us, i) ==
  {k \in 1..Len(us) : i < k /\ k <= i + MAX_CONCURRENT_PARSES + 1}

\* urls.slice(i, i + MAX_CONCURRENT_PARSES), as the positions of the slice
BatchOf(us, i) ==
  {k \in 1..Len(us) : i < k /\ k <= i + MAX_CONCURRENT_PARSES}

\* variant: the wait ends with the first settled task (Promise.race)
allSettled_Any(ts, batch) == \E k \in batch : ts[k].state = "done"

\* Promise.allSettled(promises) has resolved
allSettled(ts, batch) == \A k \in batch : ts[k].state = "done"

\* variant: the set of seen URLs is not consulted
resultsHas_Never(res, normalizedUrl) == FALSE

\* results.has(prepared.normalizedUrl)
resultsHas(res, normalizedUrl) == normalizedUrl \in res

\* variant: the error leaves the task and the loop
catchTaskError_Rethrow(pc) == "rejected"

\* the catch block of a task: the error is logged and the task settles
catchTaskError(pc) == pc

\* the normalized URL of the k-th link
NormalizedOf(us, k) == parseXHSUrl(us[k]).normalized

\* prepareLink(url), up to its first suspension, for the task at position k;
\* st is the state [cache, order, tasks, touched] the earlier tasks left
startTask(st, us, k, domains, cacheOn, t) ==
  LET url == us[k]
      parsed == parseXHSUrl(url)
  IN IF ~validateUrl(url, getAllowedDomains(domains)) \/ ~parsed.ok
       THEN [st EXCEPT !.tasks[k].state = "rejected"]
     ELSE IF cacheOn
       THEN LET r == getCachedContent(st.cache, st.order, parsed.normalized, t)
            IN [cache |-> r.cache, order |-> r.order,
                touched |-> IF r.hit THEN Append(st.touched, parsed.normalized) ELSE st.touched,
                tasks |-> [st.tasks EXCEPT ![k].state = IF r.hit THEN "hit" ELSE "fetching",
                                           ![k].got = TRUE]]
     ELSE [st EXCEPT !.tasks[k].state = "fetching", !.tasks[k].got = TRUE]

\* batch.map(async (url) => ...): the tasks of the batch start in order
RECURSIVE startTasks(_, _, _, _, _, _, _)
startTasks(st, us, k, last, domains, cacheOn, t) ==
  IF k > last THEN st
  ELSE startTasks(startTask(st, us, k, domains, cacheOn, t), us, k + 1, last, domains, cacheOn, t)

\* the accesses in touched, oldest first, applied to the history lastUse
RECURSIVE TouchAll(_, _)
TouchAll(h, touched) ==
  IF touched = <<>> THEN h
  ELSE TouchAll(Append(SelectSeq(h, LAMBDA x : x # Head(touched)), Head(touched)), Tail(touched))

\* one iteration of the for loop of parseLinksWithLimit begins at i
StartBatch(us, i, ts) ==
  LET batch == BatchOf(us, i)
      last == IF batch = {} THEN i ELSE CHOOSE k \in batch : \A j \in batch : j <= k
      st == startTasks([cache |-> cache, order |-> cacheAccessOrder, tasks |-> ts,
                        touched |-> <<>>],
                       us, i + 1, last, allowedDomains, enableCache, now)
  IN /\ tasks' = st.tasks
     /\ cache' = st.cache
     /\ cacheAccessOrder' = st.order
     /\ lastUse' = SelectSeq(TouchAll(lastUse, st.touched), LAMBDA x : x \in DOMAIN st.cache)

\* the middleware receives a message whose text has the link matches `matches`
HandleMessage(matches) ==
  /\ bpc = "idle"
  /\ urls' = extractLinks(matches)
  /\ bi' = 0
  /\ results' = {}
  /\ UNCHANGED <<fetchVars, pureVars, enableCache, cleanupTimer, now, calls, ret, allowedDomains>>
  /\ IF Len(urls') = 0
       THEN /\ bpc' = "finished"
            /\ UNCHANGED <<tasks, cache, cacheAccessOrder, lastUse>>
       ELSE /\ bpc' = "running"
            /\ StartBatch(urls', 0, [k \in 1..Len(urls') |-> WaitingTask])

\* the rest of a task once prepareLink has resolved with a prepared link
\* (pass) or with null (the content is missing, too short or blocked)
TaskContinue(k, pass) ==
  LET n == NormalizedOf(urls, k)
  IN IF ~pass
       THEN /\ tasks' = [tasks EXCEPT ![k].state = "done", ![k].out = "skipped"]
            /\ UNCHANGED results
     ELSE IF resultsHas(results, n)
       THEN /\ tasks' = [tasks EXCEPT ![k].state = "done", ![k].ok = TRUE,
                                      ![k].out = "skipped"]
            /\ UNCHANGED results
     ELSE /\ tasks' = [tasks EXCEPT ![k].state = "callback", ![k].ok = TRUE,
                                    ![k].sent = TRUE]
          /\ results' = results \cup {n}

\* prepareLink returned null before any fetch: the task returns
TaskRejected(k) ==
  /\ bpc = "running" /\ k \in DOMAIN tasks
  /\ tasks[k].state = "rejected"
  /\ tasks' = [tasks EXCEPT ![k].state = "done", ![k].out = "skipped"]
  /\ UNCHANGED <<fetchVars, pureVars, cacheVars, allowedDomains, urls, bpc, bi, results>>

\* getContent returned the cached record: the task goes on
TaskHit(k, pass) ==
  /\ bpc = "running" /\ k \in DOMAIN tasks
  /\ tasks[k].state = "hit"
  /\ TaskContinue(k, pass)
  /\ UNCHANGED <<fetchVars, pureVars, cacheVars, allowedDomains, urls, bpc, bi>>

\* the fetch of a task succeeds: getContent caches the record, the task goes on
TaskFetchSucceeds(k, content, pass) ==
  /\ bpc = "running" /\ k \in DOMAIN tasks
  /\ tasks[k].state = "fetching"
  /\ IF enableCache
       THEN LET s == setCachedContent(cache, cacheAccessOrder, NormalizedOf(urls, k), content, now)
            IN cache' = s.cache /\ cacheAccessOrder' = s.order /\ Touched(NormalizedOf(urls, k))
       ELSE UNCHANGED <<cache, cacheAccessOrder, lastUse>>
  /\ TaskContinue(k, pass)
  /\ UNCHANGED <<fetchVars, pureVars, enableCache, cleanupTimer, now, calls, ret, allowedDomains, urls, bpc, bi>>

\* the fetch of a task fails for good: getContent throws, the task catches
TaskFetchFails(k) ==
  /\ bpc = "running" /\ k \in DOMAIN tasks
  /\ tasks[k].state = "fetching"
  /\ tasks' = [tasks EXCEPT ![k].state = "done", ![k].out = "caught"]
  /\ bpc' = catchTaskError(bpc)
  /\ UNCHANGED <<fetchVars, pureVars, cacheVars, allowedDomains, urls, bi, results>>

\* the callback (dispatchContent) of a task returns
TaskCallbackReturns(k) ==
  /\ bpc = "running" /\ k \in DOMAIN tasks
  /\ tasks[k].state = "callback"
  /\ tasks' = [tasks EXCEPT ![k].state = "done", ![k].out = "returned"]
  /\ UNCHANGED <<fetchVars, pureVars, cacheVars, allowedDomains, urls, bpc, bi, results>>

\* the callback of a task throws (session.send failed): the task catches
TaskCallbackThrows(k) ==
  /\ bpc = "running" /\ k \in DOMAIN tasks
  /\ tasks[k].state = "callback"
  /\ tasks' = [tasks EXCEPT ![k].state = "done", ![k].out = "caught"]
  /\ bpc' = catchTaskError(bpc)
  /\ UNCHANGED <<fetchVars, pureVars, cacheVars, allowedDomains, urls, bi, results>>

\* await Promise.allSettled(promises) resumes: next iteration, or return
BatchSettled ==
  /\ bpc = "running"
  /\ allSettled(tasks, BatchOf(urls, bi))
  /\ bi' = bi + MAX_CONCURRENT_PARSES
  /\ UNCHANGED <<fetchVars, pureVars, enableCache, cleanupTimer, now, calls, ret, allowedDomains, urls, results>>
  /\ IF bi' < Len(urls)
       THEN /\ bpc' = "running"
            /\ StartBatch(urls, bi', tasks)
       ELSE /\ bpc' = "finished"
            /\ UNCHANGED <<tasks, cache, cacheAccessOrder, lastUse>>

InitBatch ==
  /\ enableCache \in BOOLEAN
  /\ cache = EmptyMap
  /\ cacheAccessOrder = <<>>
  /\ cleanupTimer = enableCache
  /\ now = 0
  /\ calls = [c \in CallIds |-> IdleCall]
  /\ ret = NoRet
  /\ lastUse = <<>>
  /\ allowedDomains = {}
  /\ urls = <<>>
  /\ bpc = "idle"
  /\ bi = 0
  /\ tasks = <<>>
  /\ results = {}
  /\ FetchIdle
  /\ PureIdle

TaskIds == 1..(MaxMatches + 1)

\* the record a fetch returns while a message is handled
BatchContents == {"v1"}

NextBatch ==
  \/ \E n \in 0..MaxMatches : \E matches \in [1..n -> MessageLinks] : HandleMessage(matches)
  \/ \E k \in TaskIds : TaskRejected(k)
  \/ \E k \in TaskIds, pass \in BOOLEAN : TaskHit(k, pass)
  \/ \E k \in TaskIds, content \in BatchContents, pass \in BOOLEAN : TaskFetchSucceeds(k, content, pass)
  \/ \E k \in TaskIds : TaskFetchFails(k)
  \/ \E k \in TaskIds : TaskCallbackReturns(k)
  \/ \E k \in TaskIds : TaskCallbackThrows(k)
  \/ BatchSettled

SpecBatch == InitBatch /\ [][NextBatch]_vars

\* a step of the task at position k: its pending promise settles
TaskStep(k) ==
  \/ TaskRejected(k)
  \/ \E pass \in BOOLEAN : TaskHit(k, pass)
  \/ \E content \in BatchContents, pass \in BOOLEAN : TaskFetchSucceeds(k, content, pass)
  \/ TaskFetchFails(k)
  \/ TaskCallbackReturns(k)
  \/ TaskCallbackThrows(k)

\* a call under way does not stand still for ever: a pending fetch or
\* callback settles in the end (the request timeout and the bounded retry
\* loop end each getContent call), and the event loop resumes the await of
\* Promise.allSettled once it has resolved
SpecBatchLive == SpecBatch /\ WF_vars(BatchSettled \/ \E k \in TaskIds : TaskStep(k))

(***************************************************************************)
(* The xhs command and the per-link step of the older middleware: the      *)
(* paths from a chat input to XHSClient.getContent.                        *)
(***************************************************************************)
\* the links a user may type
GateLinks ==
  { ExploreUrl("a1"),
    Url("https", "xhslink.com", <<"s1">>, 22),
    Url("https", "m.xhslink.com", <<"s1">>, 24),
    Url("https", "xhslink.com", <<"?u=xiaohongshu.com", "explore", "a1">>, 50),
    Url("http", "127.0.0.1", <<"xhslink.com", "s1">>, 31),
    Url("http", "localhost", <<"xiaohongshu.com", "explore", "a1">>, 43),
    Url("http", "10.0.0.8", <<"xhslink.com", "s1">>, 30),
    Url("ftp", "www.xiaohongshu.com", <<"explore", "a1">>, 38),
    Url("", "www.xiaohongshu.com", <<"explore", "a1">>, 30),
    Url("https", "evil.com", <<"xiaohongshu.com", "explore", "a1">>, 46),
    Url("https", "notxhslink.com", <<"s1">>, 25),
    Url("https", "www.xiaohongshu.com", <<"explore", "a1'x">>, 42),
    Url("https", "www.xiaohongshu.com", <<"explore", "a1">>, 2049) }

\* the configured lists: the defaults of the two Config schemas and a
\* restriction to short links
GateDomains ==
  { DEFAULT_ALLOWED_DOMAINS,
    {"www.xiaohongshu.com", "xhslink.com"},
    {"xhslink.com"} }

\* the input is refused before getContent is called
Refuse ==
  /\ ret' = [op |-> "refused", data |-> NoData]
  /\ UNCHANGED <<enableCache, cache, cacheAccessOrder, cleanupTimer, now, calls, lastUse>>
  /\ UNCHANGED <<batchVars, fetchVars, pureVars>>

\* xhs <url> [-f]: prepareLink(target, runtimeConfig, client, {forceRefresh})
XhsCommand(id, url, refresh) ==
  IF ~validateUrl(url, getAllowedDomains(allowedDomains)) THEN Refuse
  ELSE IF ~parseXHSUrl(url).ok THEN Refuse
  ELSE GetContentStart(id, parseXHSUrl(url).normalized, refresh)

\* xhs <url> [-f] of the older index.ts
XhsCommandV1(id, url, force) ==
  IF ~validateUrl(url, allowedDomains) THEN Refuse
  ELSE IF ~parseXHSUrl(url).ok THEN Refuse
  ELSE GetContentStart(id, parseXHSUrl(url).normalized, force)

\* xhsRegex of the older middleware
MatchesLinkRegexV1(url) ==
  /\ url.scheme \in {"http", "https"}
  /\ url.host \in {"xiaohongshu.com", "www.xiaohongshu.com", "xhslink.com"}
  /\ Len(url.path) >= 1

\* one link of a message in the older middleware
AutoParseLinkV1(id, url) ==
  /\ MatchesLinkRegexV1(url)
  /\ IF ~validateUrl(url, allowedDomains) THEN Refuse
     ELSE IF ~parseXHSUrl(url).ok THEN Refuse
     ELSE GetContentStart(id, parseXHSUrl(url).normalized, FALSE)

InitGate ==
  /\ enableCache \in BOOLEAN
  /\ cache = EmptyMap
  /\ cacheAccessOrder = <<>>
  /\ cleanupTimer = enableCache
  /\ now = 0
  /\ calls = [c \in CallIds |-> IdleCall]
  /\ ret = NoRet
  /\ lastUse = <<>>
  /\ allowedDomains \in GateDomains
  /\ urls = <<>>
  /\ bpc = "idle"
  /\ bi = 0
  /\ tasks = <<>>
  /\ results = {}
  /\ FetchIdle
  /\ PureIdle

NextGate ==
  \/ \E id \in CallIds, url \in GateLinks, f \in BOOLEAN : XhsCommand(id, url, f)
  \/ \E id \in CallIds, url \in GateLinks, f \in BOOLEAN : XhsCommandV1(id, url, f)
  \/ \E id \in CallIds, url \in GateLinks : AutoParseLinkV1(id, url)
  \/ \E id \in CallIds, content \in Contents : FetchSucceeds(id, content)
  \/ \E id \in CallIds : FetchFails(id)

SpecGate == InitGate /\ [][NextGate]_vars

(***************************************************************************)
(* One resolve of a validated URL: the retry loops of                      *)
(* XHSClient.getContentWithAxios (client.ts) and BasicXHSClient.fetchHtml  *)
(* (unnamed/part_001), the parse of the response and what the caller gets. *)
(***************************************************************************)
\* bound: largest config.maxRetries
MaxRetries == 3

Clients == {"xhs", "basic"}

\* shapes of the JSON-LD payload of a fetched document: none, unparsable
\* JSON, an unrecognized schema, [null], and {"video": {"name": ...}}
DocShapes == {"meta", "ldUnparsable", "ldUnknownSchema", "ldNullItem", "ldVideoNoUrl"}

\* messages of the exceptions axios raises
NetErrors == {"connect ECONNREFUSED 203.0.113.7:443", "timeout of 10000ms exceeded"}

\* hosts a redirect hop can point to
RedirectHosts == {"www.xiaohongshu.com", "10.0.0.8", "localhost"}

\* what one axios.get meets: a document, a network error, or a redirect hop
\* to a host and then a document
Responses ==
  [kind : {"ok"}, doc : DocShapes, host : {""}, text : {""}]
    \cup [kind : {"neterror"}, doc : {"meta"}, host : {""}, text : NetErrors]
    \cup [kind : {"redirect"}, doc : {"meta"}, host : RedirectHosts, text : {""}]

\* 1000 * attempt (client.ts:152) and attempt * 500 (part_001:381)
BaseDelay(c) == IF c = "xhs" THEN 1000 ELSE 500

\* variant: the loop allows one more attempt
isLastAttempt_OneMore(a, m) == a = m + 1

\* attempt === (this.config.maxRetries || 3), !(attempt < this.config.maxRetries)
isLastAttempt(a, m) == a = m

\* parseContent(response.data, url) raises: extractScriptData reads
\* item.author of a null item and url.includes of a video without URL field
parseContentRaises(doc) == doc \in {"ldNullItem", "ldVideoNoUrl"}

\* parseBasicNote(html, url) raises: every layer tests the type of what it reads
parseBasicNoteRaises(doc) == FALSE

\* beforeRedirect of XHSClient refuses the hop; BasicXHSClient sets no hook
refusesRedirect(c, host) == c = "xhs" /\ (isPrivateIP(host) \/ isLocalhost(host))

\* the failure the caller receives: getContent throws the fixed
\* Error('内容获取失败'); the command of the basic plugin answers
\* createErrorMessage(error.message)
FailureReply(c, message) ==
  IF c = "xhs" THEN [kind |-> "failure", text |-> "content fetch failed"]
  ELSE [kind |-> "failure", text |-> message]

\* getContent(url) / getBasicNote(rawUrl) begins: the first axios.get is issued
Resolve(c, m) ==
  /\ fpc = "idle"
  /\ client' = c
  /\ maxRetries' = m
  /\ attempt' = 1
  /\ requests' = 1
  /\ fpc' = "requesting"
  /\ UNCHANGED <<slept, followed, lastError, reply>>
  /\ UNCHANGED <<cacheVars, batchVars, pureVars>>

\* the catch block of the loop runs with an exception of the given message
AttemptFailed(message) ==
  /\ lastError' = message
  /\ IF isLastAttempt(attempt, maxRetries)
       THEN /\ fpc' = "thrown"
            /\ reply' = FailureReply(client, message)
            /\ UNCHANGED slept
       ELSE /\ fpc' = "sleeping"
            /\ slept' = Append(slept, BaseDelay(client) * attempt)
            /\ UNCHANGED reply

\* the record is returned to the caller
Returned(doc) ==
  /\ fpc' = "returned"
  /\ reply' = [kind |-> "record", text |-> doc]
  /\ UNCHANGED <<slept, lastError>>

\* the pending axios.get settles with response r
Respond(r) ==
  /\ fpc = "requesting"
  /\ UNCHANGED <<client, maxRetries, attempt, requests>>
  /\ UNCHANGED <<cacheVars, batchVars, pureVars>>
  /\ IF r.kind = "neterror"
       THEN AttemptFailed(r.text) /\ UNCHANGED followed
     ELSE IF r.kind = "redirect" /\ refusesRedirect(client, r.host)
       THEN AttemptFailed("redirect to a private address refused") /\ UNCHANGED followed
     ELSE /\ followed' = IF r.kind = "redirect" THEN followed \cup {r.host} ELSE followed
          /\ IF client = "xhs"
               THEN IF parseContentRaises(r.doc)
                      THEN AttemptFailed("TypeError: cannot read properties")
                      ELSE Returned(r.doc)
               ELSE IF parseBasicNoteRaises(r.doc)
                      THEN /\ fpc' = "thrown"
                           /\ lastError' = "TypeError: cannot read properties"
                           /\ reply' = FailureReply(client, lastError')
                           /\ UNCHANGED slept
                      ELSE Returned(r.doc)

\* the setTimeout of the backoff fires: next iteration, next axios.get
Wake ==
  /\ fpc = "sleeping"
  /\ attempt' = attempt + 1
  /\ requests' = requests + 1
  /\ fpc' = "requesting"
  /\ UNCHANGED <<client, maxRetries, slept, followed, lastError, reply>>
  /\ UNCHANGED <<cacheVars, batchVars, pureVars>>

\* the client and the plugin around it have been constructed
InitFetch ==
  /\ enableCache = FALSE
  /\ cache = EmptyMap
  /\ cacheAccessOrder = <<>>
  /\ cleanupTimer = FALSE
  /\ now = 0
  /\ calls = [c \in CallIds |-> IdleCall]
  /\ ret = NoRet
  /\ lastUse = <<>>
  /\ allowedDomains = DEFAULT_ALLOWED_DOMAINS
  /\ urls = <<>>
  /\ bpc = "idle"
  /\ bi = 0
  /\ tasks = <<>>
  /\ results = {}
  /\ FetchIdle
  /\ PureIdle

NextFetch ==
  \/ \E c \in Clients, m \in 1..MaxRetries : Resolve(c, m)
  \/ \E r \in Responses : Respond(r)
  \/ Wake

SpecFetch == InitFetch /\ [][NextFetch]_vars

(***************************************************************************)
(* BasicXHSClient.extractJsonFromAssignment (unnamed/part_001): the scan   *)
(* for the brace group after a marker.  A script is the sequence of its    *)
(* characters; "M" stands for the marker (the variable name).              *)
(***************************************************************************)
\* bound: number of characters after the opening brace
MaxBodyLen == 5

ScanChars == {"{", "}", "\"", "'", "\\"}

\* the texts from the start of the script to the opening brace
ScanPrefixes == { <<"M">>, <<"{", "M", "\"">> }

\* scripts with a marker followed by an opening brace, and three without
ScanScripts ==
  { pre \o <<"{">> \o body :
      pre \in ScanPrefixes,
      body \in UNION {[1..n -> ScanChars] : n \in 0..MaxBodyLen} }
    \cup { <<"{", "}">>, <<"M", "}">>, <<"{", "}", "M">> }

NoOut == [done |-> FALSE]

\* script.indexOf(text, from): first position >= from holding text, 0 when absent
ScriptIndexOf(script, text, from) ==
  LET hits == {i \in from..Len(script) : script[i] = text}
  IN IF hits = {} THEN 0 ELSE CHOOSE i \in hits : \A j \in hits : i <= j

\* variant: a backslash inside a string is an ordinary character
startsEscape_Never(char) == FALSE

\* char === '\\'
startsEscape(char) == char = "\\"

\* the for loop of extractJsonFromAssignment from position i on; the result
\* tells whether a text was handed to safeJsonParse, and which
RECURSIVE scanBraces(_, _, _, _, _, _)
scanBraces(script, start, i, depth, stringChar, escaped) ==
  IF i > Len(script) THEN [done |-> TRUE, handed |-> FALSE, text |-> <<>>]
  ELSE LET char == script[i]
       IN IF escaped
            THEN scanBraces(script, start, i + 1, depth, stringChar, FALSE)
          ELSE IF stringChar # ""
            THEN IF startsEscape(char)
                   THEN scanBraces(script, start, i + 1, depth, stringChar, TRUE)
                   ELSE scanBraces(script, start, i + 1, depth,
                                   IF char = stringChar THEN "" ELSE stringChar, FALSE)
          ELSE IF char = "\"" \/ char = "'"
            THEN scanBraces(script, start, i + 1, depth, char, FALSE)
          ELSE IF char = "{"
            THEN scanBraces(script, start, i + 1, depth + 1, "", FALSE)
          ELSE IF char = "}"
            THEN IF depth - 1 = 0
                   THEN [done |-> TRUE, handed |-> TRUE, text |-> SubSeq(script, start, i)]
                   ELSE scanBraces(script, start, i + 1, depth - 1, "", FALSE)
          ELSE scanBraces(script, start, i + 1, depth, "", FALSE)

\* extractJsonFromAssignment(script, variableName), up to the call of safeJsonParse
extractJsonFromAssignment(script) ==
  LET index == ScriptIndexOf(script, "M", 1)
      start == IF index = 0 THEN 0 ELSE ScriptIndexOf(script, "{", index)
  IN IF index = 0 \/ start = 0
       THEN [done |-> TRUE, handed |-> FALSE, text |-> <<>>]
       ELSE scanBraces(script, start, start, 0, "", FALSE)

\* the scanner runs on the script
Scan ==
  /\ ~pout.done
  /\ pout' = extractJsonFromAssignment(pin)
  /\ UNCHANGED <<pin, walkVars, cacheVars, batchVars, fetchVars>>

InitScan ==
  /\ enableCache = FALSE
  /\ cache = EmptyMap
  /\ cacheAccessOrder = <<>>
  /\ cleanupTimer = FALSE
  /\ now = 0
  /\ calls = [c \in CallIds |-> IdleCall]
  /\ ret = NoRet
  /\ lastUse = <<>>
  /\ allowedDomains = DEFAULT_ALLOWED_DOMAINS
  /\ urls = <<>>
  /\ bpc = "idle"
  /\ bi = 0
  /\ tasks = <<>>
  /\ results = {}
  /\ FetchIdle
  /\ pin \in ScanScripts
  /\ pout = NoOut
  /\ WalkIdle

NextScan == Scan

SpecScan == InitScan /\ [][NextScan]_vars

(***************************************************************************)
(* BasicXHSClient.parseBasicNote (unnamed/part_001): title and content of  *)
(* the note.  A page is what its three layers hold: the JSON-LD block, the *)
(* note detail of the inline-state script, and the meta tags.              *)
(***************************************************************************)
\* String.prototype.trim on the texts of the pages
Trim(text) ==
  CASE text = " H " -> "H"
    [] text = " B " -> "B"
    [] text = " D " -> "D"
    [] text = " MT " -> "MT"
    [] text = "  " -> ""
    [] OTHER -> text

\* JSON-LD blocks: none, one of a type that is not listed, and articles
JsonLdBlocks ==
  { [type |-> "none", headline |-> "", name |-> "", articleBody |-> "", description |-> ""],
    [type |-> "Thing", headline |-> " H ", name |-> "", articleBody |-> " B ", description |-> ""] }
    \cup [type : {"Article"}, headline : {"", " H "}, name : {"", "N"},
          articleBody : {"", " B "}, description : {"", "LD"}]

\* inline state: no script, or a note detail with a title and a desc
StateDetails ==
  { [found |-> FALSE, title |-> "", desc |-> ""] }
    \cup [found : {TRUE}, title : {"", "T"}, desc : {"", " D "}]

\* meta tags: og:title and og:description
MetaTags == [title : {"", " MT "}, description : {"", "  "}]

Pages == [ld : JsonLdBlocks, state : StateDetails, meta : MetaTags]

\* matchesJsonLdType(record['@type'])
matchesJsonLdType(type) ==
  type \in {"NewsArticle", "Article", "BlogPosting", "SocialMediaPosting", "CreativeWork"}

\* firstString(...values): the first value that is not blank, trimmed
firstString(values) ==
  LET hits == {i \in 1..Len(values) : Trim(values[i]) # ""}
  IN IF hits = {} THEN ""
     ELSE Trim(values[CHOOSE i \in hits : \A j \in hits : i <= j])

\* the JSON-LD step of parseBasicNote on the note [title, content]
applyJsonLd(note, ld) ==
  IF ~matchesJsonLdType(ld.type) THEN note
  ELSE LET jsonTitle == firstString(<<ld.headline, "", ld.name>>)
           jsonContent == firstString(<<ld.articleBody, ld.description>>)
       IN [title |-> IF jsonTitle # "" THEN jsonTitle ELSE note.title,
           content |-> IF jsonContent # "" THEN jsonContent ELSE note.content]

\* mergeNoteDetail(note, detail) for a detail that is its only candidate
mergeNoteDetail(note, detail) ==
  IF ~detail.found THEN note
  ELSE LET title == firstString(<<detail.title>>)
           content == Trim(detail.desc)
       IN [title |-> IF title # "" THEN title ELSE note.title,
           content |-> IF content # "" THEN content ELSE note.content]

\* the meta-tag fallbacks and the final trims of parseBasicNote
applyMetaFallback(note, meta) ==
  LET title1 == IF Trim(note.title) = ""
                  THEN (IF Trim(meta.title) # "" THEN Trim(meta.title) ELSE "no title")
                  ELSE note.title
      content1 == IF Trim(note.content) = "" THEN Trim(meta.description) ELSE note.content
  IN [title |-> IF Trim(title1) # "" THEN Trim(title1) ELSE "no title",
      content |-> Trim(content1)]

\* parseBasicNote(html, url), title and content
parseBasicNote(page) ==
  applyMetaFallback(
    mergeNoteDetail(applyJsonLd([title |-> "", content |-> ""], page.ld), page.state),
    page.meta)

\* the page is parsed
ParseNote ==
  /\ ~pout.done
  /\ pout' = [done |-> TRUE, note |-> parseBasicNote(pin)]
  /\ UNCHANGED <<pin, walkVars, cacheVars, batchVars, fetchVars>>

InitNote ==
  /\ enableCache = FALSE
  /\ cache = EmptyMap
  /\ cacheAccessOrder = <<>>
  /\ cleanupTimer = FALSE
  /\ now = 0
  /\ calls = [c \in CallIds |-> IdleCall]
  /\ ret = NoRet
  /\ lastUse = <<>>
  /\ allowedDomains = DEFAULT_ALLOWED_DOMAINS
  /\ urls = <<>>
  /\ bpc = "idle"
  /\ bi = 0
  /\ tasks = <<>>
  /\ results = {}
  /\ FetchIdle
  /\ pin \in Pages
  /\ pout = NoOut
  /\ WalkIdle

NextNote == ParseNote

SpecNote == InitNote /\ [][NextNote]_vars

(***************************************************************************)
(* BasicXHSClient.deduplicateUrls and deduplicateVideoUrls                 *)
(* (unnamed/part_001).  A string is either a URL, the record of its        *)
(* scheme, host, path and query, or a text new URL() rejects; pad tells    *)
(* whether white space surrounds it, form whether the string is written as *)
(* URL.toString() writes it or otherwise (upper-case host).                *)
(***************************************************************************)
\* bound: length of the list of URL strings
MaxListLen == 3

VideoUrl(scheme, host, path, query, pad) ==
  [kind |-> "url", scheme |-> scheme, host |-> host, path |-> path, query |-> query,
   pad |-> pad, text |-> "", form |-> "canonical"]

\* the same URL written with an upper-case host
AsWritten(url) == [url EXCEPT !.form = "raw"]

RawText(text, pad) ==
  [kind |-> "text", scheme |-> "", host |-> "", path |-> "", query |-> "",
   pad |-> pad, text |-> text, form |-> "raw"]

\* the strings of the lists
MediaStrings ==
  { VideoUrl("http", "sns-video-bd.xhscdn.com", "/stream/v1", "sign=a", FALSE),
    VideoUrl("https", "sns-video-hw.xhscdn.com", "/stream/v1", "sign=b", FALSE),
    VideoUrl("https", "sns-video-bd.xhscdn.com", "/stream/v2", "", FALSE),
    VideoUrl("https", "sns-video-bd.xhscdn.com", "/video/v1", "", FALSE),
    VideoUrl("http", "sns-video-bd.xhscdn.com", "/video/v1", "", FALSE),
    AsWritten(VideoUrl("http", "sns-video-bd.xhscdn.com", "/video/v1", "", FALSE)),
    AsWritten(VideoUrl("https", "sns-video-bd.xhscdn.com", "/video/v1", "", FALSE)),
    VideoUrl("https", "example.com", "/stream/v1", "", FALSE),
    VideoUrl("https", "example.com", "/stream/v1", "", TRUE),
    RawText("junk", FALSE),
    RawText("http//broken", TRUE),
    RawText("", TRUE) }

MediaLists == UNION {[1..n -> MediaStrings] : n \in 0..MaxListLen}

\* String.prototype.trim
trimString(str) == [str EXCEPT !.pad = FALSE]

\* !trimmed
isEmptyString(str) == str.kind = "text" /\ str.text = "" /\ ~str.pad

\* trimmed.startsWith('http')
startsWithHttp(str) ==
  \/ str.kind = "url" /\ str.scheme \in {"http", "https"}
  \/ str.kind = "text" /\ str.text = "http//broken"

\* u.hostname.endsWith('xhscdn.com')
isCdnHost(host) == host \in {"sns-video-bd.xhscdn.com", "sns-video-hw.xhscdn.com"}

\* variant: no path is taken for a streaming path
includesStream_Never(path) == FALSE

\* u.pathname.includes('/stream/')
includesStream(path) == path \in {"/stream/v1", "/stream/v2"}

\* the loop of deduplicateUrls over the rest of the list
RECURSIVE deduplicateUrlsFrom(_, _)
deduplicateUrlsFrom(rest, result) ==
  IF rest = <<>> THEN result
  ELSE LET trimmed == trimString(Head(rest))
       IN IF isEmptyString(trimmed) \/ trimmed \in Range(result)
            THEN deduplicateUrlsFrom(Tail(rest), result)
            ELSE deduplicateUrlsFrom(Tail(rest), Append(result, trimmed))

\* deduplicateUrls(urls)
deduplicateUrls(list) == deduplicateUrlsFrom(list, <<>>)

NoString == RawText("", FALSE)

\* normalizeSingleVideoUrl(urlStr): [ok, url]; ok is FALSE for null
normalizeSingleVideoUrl(str) ==
  LET trimmed == trimString(str)
  IN IF isEmptyString(trimmed) THEN [ok |-> FALSE, url |-> NoString]
     ELSE IF trimmed.kind = "url"
       THEN IF trimmed.scheme = "http" /\ isCdnHost(trimmed.host)
              THEN [ok |-> TRUE,
                    url |-> [trimmed EXCEPT !.scheme = "https", !.form = "canonical"]]
              ELSE [ok |-> TRUE, url |-> trimmed]
     ELSE IF startsWithHttp(trimmed) THEN [ok |-> TRUE, url |-> trimmed]
     ELSE [ok |-> FALSE, url |-> NoString]

\* getVideoCanonicalKey(urlStr): the pathname or the whole trimmed string
getVideoCanonicalKey(str) ==
  LET trimmed == trimString(str)
  IN IF trimmed.kind = "url" /\ isCdnHost(trimmed.host) /\ includesStream(trimmed.path)
       THEN [pathname |-> trimmed.path, whole |-> NoString]
       ELSE [pathname |-> "", whole |-> trimmed]

\* variant: the key is taken from the string as given
keyArgument_Original(original, normalized) == original

\* the argument of getVideoCanonicalKey in deduplicateVideoUrls
keyArgument(original, normalized) == normalized

\* the loop of deduplicateVideoUrls over the rest of the list
RECURSIVE deduplicateVideoUrlsFrom(_, _, _)
deduplicateVideoUrlsFrom(rest, seen, result) ==
  IF rest = <<>> THEN result
  ELSE LET original == Head(rest)
           normalized == normalizeSingleVideoUrl(original)
           key == getVideoCanonicalKey(keyArgument(original, normalized.url))
       IN IF ~normalized.ok \/ key \in seen
            THEN deduplicateVideoUrlsFrom(Tail(rest), seen, result)
            ELSE deduplicateVideoUrlsFrom(Tail(rest), seen \cup {key},
                                          Append(result, normalized.url))

\* deduplicateVideoUrls(urls)
deduplicateVideoUrls(list) == deduplicateVideoUrlsFrom(list, {}, <<>>)

\* both functions run on the list, and again on their results
Deduplicate ==
  /\ ~pout.done
  /\ pout' = [done |-> TRUE,
              urls |-> deduplicateUrls(pin),
              urlsAgain |-> deduplicateUrls(deduplicateUrls(pin)),
              videos |-> deduplicateVideoUrls(pin),
              videosAgain |-> deduplicateVideoUrls(deduplicateVideoUrls(pin))]
  /\ UNCHANGED <<pin, walkVars, cacheVars, batchVars, fetchVars>>

InitDedup ==
  /\ enableCache = FALSE
  /\ cache = EmptyMap
  /\ cacheAccessOrder = <<>>
  /\ cleanupTimer = FALSE
  /\ now = 0
  /\ calls = [c \in CallIds |-> IdleCall]
  /\ ret = NoRet
  /\ lastUse = <<>>
  /\ allowedDomains = DEFAULT_ALLOWED_DOMAINS
  /\ urls = <<>>
  /\ bpc = "idle"
  /\ bi = 0
  /\ tasks = <<>>
  /\ results = {}
  /\ FetchIdle
  /\ pin \in MediaLists
  /\ pout = NoOut
  /\ WalkIdle

NextDedup == Deduplicate

SpecDedup == InitDedup /\ [][NextDedup]_vars

(***************************************************************************)
(* BasicXHSClient.findNoteDetail and collectNoteCandidates: breadth-first  *)
(* searches of the decoded state graph.  The objects of a graph are        *)
(* numbered 1..n, object 1 being the root; an edge <<a, b>> says that a    *)
(* property of a holds b, and the properties of an object are enumerated   *)
(* in the order of the numbers.  At most one object has a key of the       *)
(* structural list (looksAt), at most one carries the identifier "n1"      *)
(* (idAt), and with viaNote the objects that hold it hold it under `note`. *)
(***************************************************************************)
\* number of objects of a state graph
MaxNodes == 3
\* the cap of collectNoteCandidates (part_001:712)
MaxCandidates == 20

RECURSIVE ReachFrom(_, _)
\* the objects reachable from the objects of S along the edges E
ReachFrom(S, E) ==
  LET T == S \cup {e[2] : e \in {d \in E : d[1] \in S}}
  IN IF T = S THEN S ELSE ReachFrom(T, E)

\* trees, diamonds and cycles of up to MaxNodes objects and MaxNodes edges,
\* every object reachable from the root
StateGraphs ==
  UNION {{[n |-> n, edges |-> E] :
            E \in {D \in SUBSET ((1..n) \X (1..n)) :
                     Cardinality(D) <= MaxNodes /\ ReachFrom({1}, D) = 1..n}} :
         n \in 1..MaxNodes}

\* a chain of more objects than collectNoteCandidates collects
LongChain ==
  [n |-> MaxCandidates + 2, edges |-> {<<k, k + 1>> : k \in 1..(MaxCandidates + 1)}]

\* findNoteDetail(state, noteId) calls
FindInputs ==
  UNION {{[fn |-> "find", n |-> g.n, edges |-> g.edges, looksAt |-> l, idAt |-> i,
           viaNote |-> v, noteId |-> id] :
            l \in 0..g.n, i \in 0..g.n, v \in BOOLEAN, id \in {"", "n1"}} :
         g \in StateGraphs}

\* collectNoteCandidates(source) calls; the edges are the nested keys
CollectInputs ==
  {[fn |-> "collect", n |-> g.n, edges |-> g.edges, looksAt |-> 0, idAt |-> 0,
    viaNote |-> FALSE, noteId |-> ""] : g \in StateGraphs \cup {LongChain}}

RECURSIVE Ascending(_)
\* the elements of a set of numbers, smallest first
Ascending(S) ==
  IF S = {} THEN <<>>
  ELSE LET m == CHOOSE x \in S : \A y \in S : x <= y
       IN <<m>> \o Ascending(S \ {m})

\* the object-valued properties of object k, in enumeration order
ObjectValues(in, k) == Ascending({e[2] : e \in {d \in in.edges : d[1] = k}})

\* the fields of object k that isNoteDetail reads; note is 0 when absent
RecordOf(in, k) ==
  [noteId |-> IF k = in.idAt THEN "n1" ELSE "",
   note |-> IF in.viaNote /\ <<k, in.idAt>> \in in.edges THEN in.idAt ELSE 0,
   looks |-> k = in.looksAt]

\* the identifier part of isNoteDetail: record.noteId, record.id (one field
\* here) or the same fields of record.note equal noteId
matchesNoteId(in, record, noteId) ==
  /\ noteId # ""
  /\ \/ record.noteId = noteId
     \/ record.note # 0 /\ RecordOf(in, record.note).noteId = noteId

\* isNoteDetail(record, noteId)
isNoteDetail(in, record, noteId) == matchesNoteId(in, record, noteId) \/ record.looks

\* variant: the set of visited objects is not consulted
alreadyVisited_Never(seen, current) == FALSE

\* visited.has(current)
alreadyVisited(seen, current) == current \in seen

\* one iteration of the while loop of findNoteDetail, or its return null
FindStep ==
  /\ pin.fn = "find" /\ ~pout.done
  /\ UNCHANGED <<pin, acc, cacheVars, batchVars, fetchVars>>
  /\ IF queue = <<>>
       THEN /\ pout' = [done |-> TRUE, node |-> 0]
            /\ UNCHANGED <<queue, visited, examined>>
     ELSE LET current == Head(queue)
          IN IF alreadyVisited(visited, current)
               THEN /\ queue' = Tail(queue)
                    /\ UNCHANGED <<pout, visited, examined>>
             ELSE /\ visited' = visited \cup {current}
                  /\ examined' = Append(examined, current)
                  /\ IF isNoteDetail(pin, RecordOf(pin, current), pin.noteId)
                       THEN /\ pout' = [done |-> TRUE, node |-> current]
                            /\ queue' = Tail(queue)
                       ELSE /\ queue' = Tail(queue) \o ObjectValues(pin, current)
                            /\ UNCHANGED pout

\* one iteration of the while loop of collectNoteCandidates, or its return
CollectStep ==
  /\ pin.fn = "collect" /\ ~pout.done
  /\ UNCHANGED <<pin, cacheVars, batchVars, fetchVars>>
  /\ IF queue = <<>> \/ ~(Len(acc) < MaxCandidates)
       THEN /\ pout' = [done |-> TRUE, result |-> acc]
            /\ UNCHANGED <<queue, visited, examined, acc>>
     ELSE LET current == Head(queue)
          IN IF alreadyVisited(visited, current)
               THEN /\ queue' = Tail(queue)
                    /\ UNCHANGED <<pout, visited, examined, acc>>
             ELSE /\ visited' = visited \cup {current}
                  /\ examined' = Append(examined, current)
                  /\ acc' = Append(acc, current)
                  /\ queue' = Tail(queue) \o ObjectValues(pin, current)
                  /\ UNCHANGED pout

\* the search has been called: its queue holds the root
InitWalk ==
  /\ enableCache = FALSE
  /\ cache = EmptyMap
  /\ cacheAccessOrder = <<>>
  /\ cleanupTimer = FALSE
  /\ now = 0
  /\ calls = [c \in CallIds |-> IdleCall]
  /\ ret = NoRet
  /\ lastUse = <<>>
  /\ allowedDomains = DEFAULT_ALLOWED_DOMAINS
  /\ urls = <<>>
  /\ bpc = "idle"
  /\ bi = 0
  /\ tasks = <<>>
  /\ results = {}
  /\ FetchIdle
  /\ pin \in FindInputs \cup CollectInputs
  /\ pout = NoOut
  /\ queue = <<1>>
  /\ visited = {}
  /\ examined = <<>>
  /\ acc = <<>>

NextWalk == FindStep \/ CollectStep

\* the loops are sequential code: a search that can take a step takes it
SpecWalk == InitWalk /\ [][NextWalk]_vars /\ WF_vars(NextWalk)

(***************************************************************************)
(* Claims about the cache.                                                 *)
(***************************************************************************)
\* C1: inserting a key that is not cached while the cache holds
\* MAX_CACHE_SIZE entries removes exactly one entry, and that entry is the
\* least-recently-accessed key held in the cache.
C1_LruEviction ==
  [][\A u \in CacheKeys :
       (u \notin DOMAIN cache /\ u \in DOMAIN cache'
          /\ Cardinality(DOMAIN cache) = MAX_CACHE_SIZE)
       => (/\ Len(lastUse) > 0
           /\ DOMAIN cache' = ((DOMAIN cache) \ {lastUse[1]}) \cup {u})]_vars

\* C2: the number of cached entries never exceeds MAX_CACHE_SIZE.
C2_CacheBounded == Cardinality(DOMAIN cache) <= MAX_CACHE_SIZE

\* C3: with enableCache on, getContent(url, false) made while the cache holds
\* an entry for url younger than the timeout returns the stored record and
\* suspends no call at a fetch.
C3_CacheHit ==
  [][\A id \in CallIds, u \in CacheKeys :
       (/\ enableCache
        /\ u \in DOMAIN cache
        /\ now - cache[u].timestamp < CacheTimeout
        /\ GetContentStart(id, u, FALSE))
       => (/\ ret' = [op |-> "hit", data |-> cache[u].data]
           /\ calls' = calls)]_vars

\* C3 witness: a lookup hit has just returned the cached record.
C3_Witness ==
  /\ ret.op = "hit"
  /\ \E u \in DOMAIN cache : cache[u].data = ret.data /\ now - cache[u].timestamp < CacheTimeout
  /\ \A id \in CallIds : calls[id].state = "idle"

\* C4: a lookup of a key whose entry has age >= timeout is a miss, removes
\* the key from the cache map and from the access-order list, and the
\* getContent that made it goes on to fetch.
C4_ExpiredOnRead ==
  [][\A id \in CallIds, u \in CacheKeys :
       (/\ enableCache
        /\ u \in DOMAIN cache
        /\ now - cache[u].timestamp >= CacheTimeout
        /\ GetContentStart(id, u, FALSE))
       => (/\ ret'.op # "hit"
           /\ u \notin DOMAIN cache'
           /\ u \notin Range(cacheAccessOrder')
           /\ calls'[id] = [state |-> "fetching", url |-> u])]_vars

\* C4 witness: an expired entry has just been purged by a lookup and the
\* call is suspended at its fetch.
C4_Witness ==
  /\ ret.op = "expired"
  /\ \E id \in CallIds :
       /\ calls[id].state = "fetching"
       /\ calls[id].url \notin DOMAIN cache
       /\ calls[id].url \notin Range(cacheAccessOrder)

(***************************************************************************)
(* Claims about parseLinksWithLimit.                                       *)
(***************************************************************************)
\* tasks that have started and have not settled
InFlight == {k \in DOMAIN tasks : tasks[k].state \notin {"waiting", "done"}}

\* the iteration of the for loop the k-th link belongs to
BatchIndex(k) == (k - 1) \div MAX_CONCURRENT_PARSES

\* C5: at every instant of a parseLinksWithLimit call the number of tasks in
\* flight, and so the number of fetches in flight, is at most
\* MAX_CONCURRENT_PARSES.
C5_ConcurrencyCap ==
  /\ Cardinality(InFlight) <= MAX_CONCURRENT_PARSES
  /\ Cardinality({k \in DOMAIN tasks : tasks[k].state = "fetching"}) <= MAX_CONCURRENT_PARSES

\* MAX_CONCURRENT_PARSES fetches are in flight while a further link waits
C5_Witness ==
  /\ Cardinality({k \in DOMAIN tasks : tasks[k].state = "fetching"}) = MAX_CONCURRENT_PARSES
  /\ \E k \in DOMAIN tasks : tasks[k].state = "waiting"

\* C6: within one call client.getContent is invoked at most once for each
\* normalized URL, also when distinct raw links normalize to the same URL.
C6_OneResolvePerNormalizedUrl ==
  \A j, k \in DOMAIN tasks :
    (j # k /\ tasks[j].got /\ tasks[k].got) => NormalizedOf(urls, j) # NormalizedOf(urls, k)

\* C7: within one call the callback is invoked at most once for each
\* normalized URL, in every interleaving and across batches.
C7_SingleDelivery ==
  \A j, k \in DOMAIN tasks :
    (j # k /\ tasks[j].sent /\ tasks[k].sent) => NormalizedOf(urls, j) # NormalizedOf(urls, k)

\* two links of different batches resolve to the same normalized URL, both
\* resolves succeed, and only the first one reaches the callback
C7_Witness ==
  \E j, k \in DOMAIN tasks :
    /\ BatchIndex(j) < BatchIndex(k)
    /\ NormalizedOf(urls, j) = NormalizedOf(urls, k)
    /\ tasks[j].ok /\ tasks[k].ok
    /\ tasks[j].sent /\ ~tasks[k].sent
    /\ tasks[k].state = "done"

\* C8: no task of a batch has started before every task of every earlier
\* batch has settled, its callback included.
C8_BatchesSequential ==
  \A j, k \in DOMAIN tasks :
    (BatchIndex(j) < BatchIndex(k) /\ tasks[k].state # "waiting") => tasks[j].state = "done"

\* a task of the second batch is fetching after the first batch settled with
\* a failure and a delivery
C8_Witness ==
  \E i, j, k \in DOMAIN tasks :
    /\ BatchIndex(i) = 0 /\ BatchIndex(j) = 0 /\ BatchIndex(k) = 1
    /\ tasks[i].out = "caught" /\ tasks[j].out = "returned"
    /\ tasks[k].state = "fetching"

\* the k-th link passes validateUrl and parseXHSUrl
Resolvable(k) ==
  /\ validateUrl(urls[k], getAllowedDomains(allowedDomains))
  /\ parseXHSUrl(urls[k]).ok

\* C9: the call never rejects; a failed task leaves the others alone: every
\* started link that passes validation is resolved, and when the call returns
\* every task has settled and every successfully resolved normalized URL has
\* been handed to the callback.
C9_FailureIsolation ==
  /\ bpc # "rejected"
  /\ \A k \in DOMAIN tasks :
       (tasks[k].state # "waiting" /\ Resolvable(k)) => tasks[k].got
  /\ bpc = "finished" =>
       \A k \in DOMAIN tasks :
         /\ tasks[k].state = "done"
         /\ tasks[k].ok =>
              \E j \in DOMAIN tasks :
                NormalizedOf(urls, j) = NormalizedOf(urls, k) /\ tasks[j].sent

\* the call returned; in the first batch one link was rejected, one task
\* caught an error and one delivered, and a link of the second batch delivered
C9_Witness ==
  /\ bpc = "finished"
  /\ \E r, i, j, k \in DOMAIN tasks :
       /\ BatchIndex(r) = 0 /\ BatchIndex(i) = 0 /\ BatchIndex(j) = 0 /\ BatchIndex(k) = 1
       /\ ~Resolvable(r)
       /\ tasks[i].out = "caught"
       /\ tasks[j].out = "returned"
       /\ tasks[k].out = "returned"

(***************************************************************************)
(* Claims about the validation gate.                                       *)
(***************************************************************************)
\* C10: every URL for which a fetch is issued is accepted by validateUrl
\* under the configured allowed domains.
C10_FetchedUrlValidated ==
  \A id \in CallIds :
    calls[id].state = "fetching" =>
      validateUrl(calls[id].url, getAllowedDomains(allowedDomains))

(***************************************************************************)
(* Claims about one resolve.                                               *)
(***************************************************************************)
\* C11: a resolve issues at most maxRetries requests; it waits
\* k x baseDelay after failed attempt k < maxRetries and nothing after the
\* last one; a success ends the loop; after maxRetries failures the resolve
\* fails.
C11_BoundedRetry ==
  /\ requests <= maxRetries
  /\ Len(slept) < maxRetries
  /\ \A k \in 1..Len(slept) : slept[k] = k * BaseDelay(client)
  /\ fpc = "requesting" => (requests = attempt /\ Len(slept) = attempt - 1)
  /\ fpc = "sleeping" => (requests = attempt /\ Len(slept) = attempt /\ attempt < maxRetries)
  /\ fpc = "returned" => (requests = attempt /\ Len(slept) = attempt - 1 /\ reply.kind = "record")
  /\ fpc = "thrown" => (requests = maxRetries /\ Len(slept) = maxRetries - 1 /\ reply.kind = "failure")

\* a resolve with maxRetries > 1 has failed after maxRetries attempts and
\* maxRetries - 1 delays
C11_Witness ==
  /\ fpc = "thrown"
  /\ maxRetries > 1
  /\ requests = maxRetries
  /\ Len(slept) = maxRetries - 1

C17_NoPrivateRedirect ==
  \A h \in followed : ~(isPrivateIP(h) \/ isLocalhost(h))

\* C18: the failure the caller receives is a fixed text, the same whatever
\* exception was caught.
C18_FixedFailureText ==
  reply.kind = "failure" => reply.text = "content fetch failed"

(***************************************************************************)
(* Claims about the brace scanner.                                         *)
(***************************************************************************)
\* the lexical mode in which character i of the script is read when reading
\* begins at position start outside any string: "code", inside a double- or
\* single-quoted string ("dq", "sq"), or right after a backslash in one
RECURSIVE LexMode(_, _, _)
LexMode(script, start, i) ==
  IF i = start THEN "code"
  ELSE LET before == LexMode(script, start, i - 1)
           c == script[i - 1]
       IN CASE before = "code" /\ c = "\"" -> "dq"
            [] before = "code" /\ c = "'" -> "sq"
            [] before = "code" -> "code"
            [] before = "dq" /\ c = "\\" -> "dqEscape"
            [] before = "dq" /\ c = "\"" -> "code"
            [] before = "dq" -> "dq"
            [] before = "sq" /\ c = "\\" -> "sqEscape"
            [] before = "sq" /\ c = "'" -> "code"
            [] before = "sq" -> "sq"
            [] before = "dqEscape" -> "dq"
            [] OTHER -> "sq"

\* number of braces b read as code in positions start..i
CodeBraces(script, start, i, b) ==
  Cardinality({j \in start..i : script[j] = b /\ LexMode(script, start, j) = "code"})

\* positions of the closing braces that balance the brace at start
Closers(script, start) ==
  {i \in start..Len(script) :
     /\ script[i] = "}"
     /\ LexMode(script, start, i) = "code"
     /\ CodeBraces(script, start, i, "{") = CodeBraces(script, start, i, "}")}

\* position of the first opening brace after the marker, 0 when there is none
FirstBrace(script) ==
  IF ScriptIndexOf(script, "M", 1) = 0 THEN 0
  ELSE ScriptIndexOf(script, "{", ScriptIndexOf(script, "M", 1))

\* C12: when the first brace after the marker opens a balanced group, braces
\* in string literals ignored and escaped quotes not closing a string, the
\* scanner hands to the parser exactly the text from that brace to its
\* matching closing brace.
C12_BalancedBraceScanner ==
  (pout.done /\ FirstBrace(pin) > 0 /\ Closers(pin, FirstBrace(pin)) # {}) =>
    LET start == FirstBrace(pin)
        close == CHOOSE i \in Closers(pin, start) : \A j \in Closers(pin, start) : i <= j
    IN pout.handed /\ pout.text = SubSeq(pin, start, close)

\* the script  M{"\""}  has been scanned: a string that holds an escaped quote
C12_Witness ==
  /\ pout.done
  /\ pin = <<"M", "{", "\"", "\\", "\"", "\"", "}">>
  /\ pout.handed

(***************************************************************************)
(* Claims about parseBasicNote.                                            *)
(***************************************************************************)
\* C13: for a page whose JSON-LD block has a listed type and a non-empty
\* headline and articleBody, the note has title = trim(headline) and
\* content = trim(articleBody), whatever the inline state and the meta tags.
C13_JsonLdPrecedence ==
  (/\ pout.done
   /\ matchesJsonLdType(pin.ld.type)
   /\ Trim(pin.ld.headline) # ""
   /\ Trim(pin.ld.articleBody) # "") =>
    (pout.note.title = Trim(pin.ld.headline) /\ pout.note.content = Trim(pin.ld.articleBody))

(***************************************************************************)
(* Claims about the media lists.                                           *)
(***************************************************************************)
\* C14: deduplicateUrls and deduplicateVideoUrls are idempotent: applied to
\* their own result they return it unchanged, elements and order.
C14_DedupIdempotent ==
  pout.done => (pout.urlsAgain = pout.urls /\ pout.videosAgain = pout.videos)

\* a list with an http CDN URL and its https twin has been deduplicated to a
\* shorter list
C14_Witness ==
  /\ pout.done
  /\ \E i, j \in 1..Len(pin) :
       /\ i < j
       /\ pin[i].scheme = "http" /\ pin[j].scheme = "https"
       /\ pin[i].host = pin[j].host /\ pin[i].path = "/video/v1" /\ pin[j].path = "/video/v1"
  /\ Len(pout.videos) < Len(pin)
  /\ Len(pout.videos) > 0

\* the string is a URL on the CDN whose path holds the streaming marker
OnCdnStream(str) ==
  /\ str.kind = "url"
  /\ str.host \in {"sns-video-bd.xhscdn.com", "sns-video-hw.xhscdn.com"}
  /\ str.path \in {"/stream/v1", "/stream/v2"}

\* two strings of a list that must give one output entry
Collapse(a, b) ==
  \/ OnCdnStream(a) /\ OnCdnStream(b) /\ a.path = b.path
  \/ normalizeSingleVideoUrl(a).url = normalizeSingleVideoUrl(b).url

\* positions of the list whose string is kept: not dropped as invalid and
\* collapsing with no earlier kept string
KeptPositions(list) ==
  {i \in 1..Len(list) :
     /\ normalizeSingleVideoUrl(list[i]).ok
     /\ \A j \in 1..(i - 1) :
          normalizeSingleVideoUrl(list[j]).ok => ~Collapse(list[j], list[i])}

\* C15: CDN streaming URLs with equal paths give one entry, the first one
\* met, upgraded to https; any other two strings give one entry only when
\* their normalized strings are equal.
C15_VideoCanonicalKey ==
  pout.done =>
    /\ Len(pout.videos) = Cardinality(KeptPositions(pin))
    /\ \A i \in KeptPositions(pin) :
         pout.videos[Cardinality({j \in KeptPositions(pin) : j <= i})]
           = normalizeSingleVideoUrl(pin[i]).url

\* an http CDN streaming URL is followed by one with the same path on another
\* mirror with another query: one entry, the first, upgraded to https
C15_Witness ==
  /\ pout.done
  /\ Len(pin) = 2
  /\ OnCdnStream(pin[1]) /\ OnCdnStream(pin[2])
  /\ pin[1].scheme = "http"
  /\ pin[1].host # pin[2].host /\ pin[1].query # pin[2].query /\ pin[1].path = pin[2].path
  /\ pout.videos = << [pin[1] EXCEPT !.scheme = "https"] >>

(***************************************************************************)
(* Claims about the outcomes of a batch and about the periodic sweep.      *)
(***************************************************************************)
\* C19: when parseLinksWithLimit returns, every accepted link (one that
\* passes validateUrl and parseXHSUrl and is not skipped as a repeat or for its
\* content) has had an outcome, a record or an error, handed to the callback.
C19_OutcomePerAcceptedUrl ==
  bpc = "finished" =>
    \A k \in DOMAIN tasks :
      (Resolvable(k) /\ tasks[k].out # "skipped") =>
        \E j \in DOMAIN tasks :
          NormalizedOf(urls, j) = NormalizedOf(urls, k) /\ tasks[j].sent

\* C20: right after a sweep the cache holds no entry that getCachedContent
\* would reject as expired at the same instant, every removed key has also
\* left the access-order list, and no unexpired entry was removed.
C20_SweepAgreesWithRead ==
  [][Sweep =>
       /\ \A k \in DOMAIN cache' : ~isExpired(cache'[k], now)
       /\ \A k \in (DOMAIN cache) \ (DOMAIN cache') : k \notin Range(cacheAccessOrder')
       /\ \A k \in DOMAIN cache : ~isExpired(cache[k], now) => k \in DOMAIN cache'
    ]_vars

(***************************************************************************)
(* Claims about cache hits, forced refresh and failed resolves.            *)
(***************************************************************************)
\* C24: a cache hit makes the key the most recently used one and restarts its
\* TTL window: after the hit the entry's timestamp is the time of the hit.
C24_HitRefreshesEntry ==
  [][\A url \in DOMAIN cache :
       ((\E id \in DOMAIN calls : GetContentStart(id, url, FALSE)) /\ ret'.op = "hit") =>
         /\ cacheAccessOrder'[Len(cacheAccessOrder')] = url
         /\ cache'[url].timestamp = now
    ]_vars

\* C26: getContent(url, true) is never answered from the cache: it leaves the
\* cache alone and suspends at its fetch; when a fetch succeeds with caching
\* on, the entry of the URL is the new record with the current timestamp, the
\* URL is the most recently used key, and no other key is evicted when the URL
\* was already cached.
C26_ForcedRefresh ==
  [][\A id \in DOMAIN calls, u \in CacheKeys :
       /\ GetContentStart(id, u, TRUE) =>
            /\ ret'.op # "hit"
            /\ calls'[id] = [state |-> "fetching", url |-> u]
            /\ UNCHANGED <<cache, cacheAccessOrder>>
       /\ \A content \in Contents :
            (FetchSucceeds(id, content) /\ enableCache /\ calls[id].url = u) =>
              /\ cache'[u] = [data |-> content, timestamp |-> now]
              /\ cacheAccessOrder'[Len(cacheAccessOrder')] = u
              /\ u \in DOMAIN cache => DOMAIN cache' = DOMAIN cache
    ]_vars

\* the only call under way is a forced one, suspended at its fetch although
\* the cache is full and holds an unexpired record of its URL, stored earlier
C26_Witness ==
  /\ enableCache
  /\ ret.op = "skipped"
  /\ Cardinality(DOMAIN cache) = MAX_CACHE_SIZE
  /\ \E id \in DOMAIN calls :
       /\ calls[id].state = "fetching"
       /\ \A j \in DOMAIN calls : j # id => calls[j].state = "idle"
       /\ calls[id].url \in DOMAIN cache
       /\ cache[calls[id].url].timestamp < now
       /\ ~isExpired(cache[calls[id].url], now)
       /\ cacheAccessOrder[1] # calls[id].url

\* C28: the step that ends getContent in failure or with no content changes
\* neither the cache map nor the access-order list; an entry is stored only by
\* the step of a successful fetch; with enableCache off no step of getContent
\* changes the cache.
C28_FailureLeavesCache ==
  [][LET Starts == \E id \in DOMAIN calls, u \in CacheKeys, f \in BOOLEAN :
                     GetContentStart(id, u, f)
         Succeeds == \E id \in DOMAIN calls, content \in Contents : FetchSucceeds(id, content)
         EndsWithoutRecord ==
           \E id \in DOMAIN calls : FetchFails(id) \/ FetchYieldsNothing(id)
         StoresRecord ==
           \E u \in DOMAIN cache' : u \notin DOMAIN cache \/ cache'[u] # cache[u]
     IN /\ EndsWithoutRecord => UNCHANGED <<cache, cacheAccessOrder>>
        /\ StoresRecord => Succeeds
        /\ ((Starts \/ Succeeds \/ EndsWithoutRecord) /\ ~enableCache) =>
             UNCHANGED <<cache, cacheAccessOrder>>
    ]_vars

\* a call has just ended without a record while the cache holds one
C28_Witness ==
  /\ enableCache
  /\ ret.op \in {"error", "null"}
  /\ \A id \in DOMAIN calls : calls[id].state = "idle"
  /\ cache # EmptyMap

(***************************************************************************)
(* Claims about the sweep timer.                                           *)
(***************************************************************************)
\* C27: the timer runs only in a client with caching on; once it is cleared
\* it stays cleared, and from then on the cache changes only in steps of
\* getContent: no sweep runs; dispose leaves the timer cleared and the cache
\* alone, however often it is called.
C27_TimerLifecycle ==
  /\ [](cleanupTimer => enableCache)
  /\ [][/\ ~cleanupTimer =>
            /\ ~cleanupTimer'
            /\ <<cache, cacheAccessOrder>>' # <<cache, cacheAccessOrder>> =>
                 \/ \E id \in DOMAIN calls, u \in CacheKeys, f \in BOOLEAN :
                      GetContentStart(id, u, f)
                 \/ \E id \in DOMAIN calls, content \in Contents : FetchSucceeds(id, content)
        /\ Dispose => (~cleanupTimer' /\ UNCHANGED <<cache, cacheAccessOrder>>)
       ]_vars

\* after dispose the cache holds an entry that the sweep would delete
C27_Witness ==
  /\ enableCache
  /\ ~cleanupTimer
  /\ \E k \in DOMAIN cache : sweepExpired(cache[k], now)

(***************************************************************************)
(* Claims about overlapping getContent calls.                              *)
(***************************************************************************)
\* C29: however the getContent calls interleave, no URL occurs twice in the
\* access-order list; a fetch that completes with a record leaves that record,
\* stamped with the current time, as the only entry of its URL, whatever an
\* overlapping call stored before; and once every call has settled after such
\* a completion, the most recently used key holds the record completed last.
C29_OverlapConsistent ==
  /\ [](\A i, j \in 1..Len(cacheAccessOrder) :
          cacheAccessOrder[i] = cacheAccessOrder[j] => i = j)
  /\ []((enableCache /\ ret.op = "content" /\ \A id \in DOMAIN calls : calls[id].state = "idle") =>
          /\ cacheAccessOrder # <<>>
          /\ cache[cacheAccessOrder[Len(cacheAccessOrder)]].data = ret.data)
  /\ [][\A id \in DOMAIN calls, content \in Contents :
          (FetchSucceeds(id, content) /\ enableCache) =>
            cache'[calls[id].url] = [data |-> content, timestamp |-> now]
       ]_vars

\* two calls for one URL overlapped: the first has just stored its record
\* while the second, started before that, is still suspended at its fetch
C29_Witness ==
  \E i, j \in DOMAIN calls :
    /\ i # j
    /\ enableCache
    /\ calls[i].state = "idle"
    /\ calls[j].state = "fetching"
    /\ ret.op = "content"
    /\ DOMAIN cache = {calls[j].url}
    /\ cache[calls[j].url] = [data |-> ret.data, timestamp |-> now]

(***************************************************************************)
(* Claims about the termination of parseLinksWithLimit.                    *)
(***************************************************************************)
\* C30: when every fetch and callback settles, a running parseLinksWithLimit
\* call finishes; it has then run exactly ceil(N / MAX_CONCURRENT_PARSES)
\* iterations of its loop and every task has settled; a task that has settled
\* (its fetch failed, say) is never started again.
C30_BatchTerminates ==
  /\ (bpc = "running") ~> (bpc = "finished")
  /\ [](bpc = "finished" =>
          /\ bi = MAX_CONCURRENT_PARSES *
                    ((Len(urls) + MAX_CONCURRENT_PARSES - 1) \div MAX_CONCURRENT_PARSES)
          /\ \A k \in DOMAIN tasks : tasks[k].state = "done")
  /\ [][\A k \in DOMAIN tasks :
          tasks[k].state = "done" => (k \in DOMAIN tasks' /\ tasks'[k] = tasks[k])
       ]_vars

\* a call over four links has finished after two iterations; the fetch of a
\* link of the first batch had failed
C30_Witness ==
  /\ bpc = "finished"
  /\ Len(urls) = MAX_CONCURRENT_PARSES + 1
  /\ bi = 2 * MAX_CONCURRENT_PARSES
  /\ \E k \in DOMAIN tasks :
       BatchIndex(k) = 0 /\ tasks[k].got /\ ~tasks[k].ok /\ tasks[k].out = "caught"

(***************************************************************************)
(* Claims about the searches of the state graph.                           *)
(***************************************************************************)
\* C21: when an identifier is supplied and some object of the graph, itself
\* or in its note field, carries it, findNoteDetail returns an object that
\* matches the identifier.
C21_IdentifierMatchFirst ==
  LET MatchesId(k) == matchesNoteId(pin, RecordOf(pin, k), pin.noteId)
  IN (pin.fn = "find" /\ pout.done /\ \E k \in 1..pin.n : MatchesId(k)) =>
       (pout.node # 0 /\ MatchesId(pout.node))

\* C25: both searches end on every graph, cyclic and diamond-shaped ones
\* included; no object is looked at twice; findNoteDetail returns null exactly
\* when isNoteDetail accepts no object of the graph; collectNoteCandidates
\* returns at most MaxCandidates objects, none of them twice.
C25_SearchTerminates ==
  LET NoRepeats(seq) == \A i, j \in 1..Len(seq) : seq[i] = seq[j] => i = j
  IN
  /\ <>(pout.done)
  /\ [](NoRepeats(examined))
  /\ []((pin.fn = "find" /\ pout.done) =>
          (pout.node = 0 <=>
             \A k \in 1..pin.n : ~isNoteDetail(pin, RecordOf(pin, k), pin.noteId)))
  /\ []((pin.fn = "collect" /\ pout.done) =>
          (Len(pout.result) <= MaxCandidates /\ NoRepeats(pout.result)))

\* a search has ended after meeting an object it had already visited: a
\* cycle through the root, or two objects sharing a child
C25_Witness ==
  /\ pout.done
  /\ pin.n >= 2
  /\ Len(examined) = pin.n
  /\ \/ \E k \in 1..pin.n : <<k, 1>> \in pin.edges
     \/ \E a, b, k \in 1..pin.n : a # b /\ <<a, k>> \in pin.edges /\ <<b, k>> \in pin.edges

(***************************************************************************)
(* Claims about the layers of parseBasicNote.                              *)
(***************************************************************************)
\* C22: a layer of parseBasicNote sets the title or the content only when the
\* earlier layers left it empty: what JSON-LD supplied survives the inline
\* state, what either supplied survives the meta tags, and the final title is
\* never empty.
C22_LayersFillOnlyEmpty ==
  LET AfterJsonLd == applyJsonLd([title |-> "", content |-> ""], pin.ld)
      AfterState == mergeNoteDetail(AfterJsonLd, pin.state)
  IN
  pout.done =>
    /\ AfterJsonLd.title # "" => AfterState.title = AfterJsonLd.title
    /\ AfterJsonLd.content # "" => AfterState.content = AfterJsonLd.content
    /\ Trim(AfterState.title) # "" => pout.note.title = Trim(AfterState.title)
    /\ Trim(AfterState.content) # "" => pout.note.content = Trim(AfterState.content)
    /\ pout.note.title # ""

(***************************************************************************)
(* Claims about the media references of a note.                            *)
(***************************************************************************)
\* C23: every image and every video reference of the returned note is a
\* non-empty absolute http or https URL.
C23_MediaUrlsAbsolute ==
  LET IsAbsoluteHttpUrl(str) ==
        str.kind = "url" /\ str.scheme \in {"http", "https"} /\ ~str.pad
  IN
  pout.done =>
    /\ \A i \in DOMAIN pout.urls : IsAbsoluteHttpUrl(pout.urls[i])
    /\ \A i \in DOMAIN pout.videos : IsAbsoluteHttpUrl(pout.videos[i])

====
